---- MODULE Spec2Model ----
(***************************************************************************)
(* jsontoneo: a line-delimited JSON reader that upserts httpx scan records *)
(* into a Neo4j graph.  The model follows main() of src/main.go (the       *)
(* variant with the YAML configuration file) and of src/unnamed/part_002   *)
(* (the variant with hard-coded credentials), statement by statement: the  *)
(* setup steps, the scan/decode loop, the write transaction with its four  *)
(* Cypher statements, the result logging and the exit paths.               *)
(***************************************************************************)
EXTENDS Integers, Sequences, FiniteSets, TLC

VARIABLES
    variant,   \* which main() runs: "config" (src/main.go) or "hardcoded" (part_002)
    pc,        \* position of main()
    exitCode,  \* -1 while running, 0 after main returns, 1 after log.Fatal
    file,      \* the input file handle: "none", "open", "closed"
    driver,    \* the neo4j driver:      "none", "open", "closed"
    session,   \* the neo4j session:     "none", "open", "closed"
    read,      \* the lines scanner.Scan has returned so far (indices into Corpus)
    result,    \* var result HttpxResult of the current loop iteration
    graph,     \* the committed content of the graph store
    tx,        \* the working content of the open write transaction
    before,    \* the committed graph at the moment the current line was read
    ti,        \* index of the tech loop
    ran,       \* the statements tx.Run was called with in the current transaction
    err,       \* the error WriteTransaction returns ("" is nil)
    log        \* what log.Printf, log.Fatal and fmt.Printf have written

vars == <<variant, pc, exitCode, file, driver, session, read, result, graph, tx,
          before, ti, ran, err, log>>

\* The number of input lines a run reads at most.
MaxLines == 2

-----------------------------------------------------------------------------
(* JSON documents, as encoding/json sees them: a value carries its JSON type. *)

Str(s) == [t |-> "string", v |-> s]
Num(n) == [t |-> "number", v |-> n]
Arr(a) == [t |-> "array", v |-> a]
Obj(o) == [t |-> "object", v |-> o]
Null == [t |-> "null", v |-> "null"]

\* The zero values json.Unmarshal starts from (var result HttpxResult).
ZeroASN == [ASNumber |-> "", ASName |-> "", ASCountry |-> "", ASRange |-> <<>>]

ZeroResult ==
    [Timestamp |-> "", ASN |-> ZeroASN, Port |-> "", URL |-> "", Input |-> "",
     Title |-> "", Scheme |-> "", Webserver |-> "", Tech |-> <<>>, Host |-> "",
     Status |-> 0, Words |-> 0, Lines |-> 0, Resolvers |-> <<>>]

\* A member of a JSON object decodes into a Go field of JSON type ty when it
\* is absent, null, or of that type.
FieldFits(o, name, ty) ==
    \/ name \notin DOMAIN o
    \/ o[name].t = "null"
    \/ o[name].t = ty

\* A JSON array decodes into []string when every element is a string or null.
StringsFit(o, name) ==
    \/ name \notin DOMAIN o
    \/ o[name].t = "null"
    \/ /\ o[name].t = "array"
       /\ \A i \in 1..Len(o[name].v) : o[name].v[i].t \in {"string", "null"}

\* The value a member leaves in the Go field: absent and null leave the zero value.
Field(o, name, zero) ==
    IF name \in DOMAIN o /\ o[name].t # "null" THEN o[name].v ELSE zero

Strings(o, name) ==
    IF name \in DOMAIN o /\ o[name].t = "array"
    THEN [i \in 1..Len(o[name].v) |->
             IF o[name].v[i].t = "string" THEN o[name].v[i].v ELSE ""]
    ELSE <<>>

AsnFits(o) ==
    /\ FieldFits(o, "as_number", "string")
    /\ FieldFits(o, "as_name", "string")
    /\ FieldFits(o, "as_country", "string")
    /\ StringsFit(o, "as_range")

DecodeASN(o) ==
    [ASNumber |-> Field(o, "as_number", ""), ASName |-> Field(o, "as_name", ""),
     ASCountry |-> Field(o, "as_country", ""), ASRange |-> Strings(o, "as_range")]

ResultFits(o) ==
    /\ \A n \in {"timestamp", "port", "url", "input", "title", "scheme",
                 "webserver", "host"} : FieldFits(o, n, "string")
    /\ \A n \in {"status_code", "words", "lines"} : FieldFits(o, n, "number")
    /\ StringsFit(o, "tech")
    /\ StringsFit(o, "resolvers")
    /\ FieldFits(o, "asn", "object")
    /\ ("asn" \in DOMAIN o /\ o["asn"].t = "object") => AsnFits(o["asn"].v)

DecodeResult(o) ==
    [Timestamp |-> Field(o, "timestamp", ""),
     ASN |-> IF "asn" \in DOMAIN o /\ o["asn"].t = "object"
             THEN DecodeASN(o["asn"].v) ELSE ZeroASN,
     Port |-> Field(o, "port", ""), URL |-> Field(o, "url", ""),
     Input |-> Field(o, "input", ""), Title |-> Field(o, "title", ""),
     Scheme |-> Field(o, "scheme", ""), Webserver |-> Field(o, "webserver", ""),
     Tech |-> Strings(o, "tech"), Host |-> Field(o, "host", ""),
     Status |-> Field(o, "status_code", 0), Words |-> Field(o, "words", 0),
     Lines |-> Field(o, "lines", 0), Resolvers |-> Strings(o, "resolvers")]

\* json.Unmarshal(scanner.Bytes(), &result): a syntax error or a member of the
\* wrong type is an error; otherwise the members present overwrite the zero
\* values and unknown members are ignored.
Unmarshal(line) ==
    IF ~line.syntax THEN [ok |-> FALSE, result |-> ZeroResult]
    ELSE IF line.doc.t = "null" THEN [ok |-> TRUE, result |-> ZeroResult]
    ELSE IF line.doc.t # "object" THEN [ok |-> FALSE, result |-> ZeroResult]
    ELSE IF ~ResultFits(line.doc.v) THEN [ok |-> FALSE, result |-> ZeroResult]
    ELSE [ok |-> TRUE, result |-> DecodeResult(line.doc.v)]

-----------------------------------------------------------------------------
(* The input lines the runs draw from. *)

Corpus == <<
    \* 1: a full record whose tech list repeats a name
    [syntax |-> TRUE, doc |-> Obj(
        [url |-> Str("https://a.example"), host |-> Str("1.2.3.4"),
         tech |-> Arr(<<Str("nginx"), Str("nginx")>>),
         asn |-> Obj([as_number |-> Str("AS123"), as_name |-> Str("ExampleNet"),
                      as_country |-> Str("US")]),
         input |-> Str("a.example"), port |-> Str("443"), title |-> Str("A"),
         scheme |-> Str("https"), webserver |-> Str("nginx"),
         status_code |-> Num(200), words |-> Num(10), lines |-> Num(3)])],
    \* 2: the same URL with other attributes, IP and tech, and an empty AS number
    [syntax |-> TRUE, doc |-> Obj(
        [url |-> Str("https://a.example"), host |-> Str("5.6.7.8"),
         tech |-> Arr(<<Str("php")>>),
         asn |-> Obj([as_number |-> Str(""), as_name |-> Str("Nameless")]),
         input |-> Str("www.a.example"), port |-> Str("8443"), title |-> Str("B"),
         scheme |-> Str("http"), webserver |-> Str("apache"),
         status_code |-> Num(404), words |-> Num(7), lines |-> Num(1)])],
    \* 3: another URL sharing the IP, a tech and the AS number of line 1
    [syntax |-> TRUE, doc |-> Obj(
        [url |-> Str("https://b.example"), host |-> Str("1.2.3.4"),
         tech |-> Arr(<<Str("php"), Str("nginx")>>),
         asn |-> Obj([as_number |-> Str("AS123"), as_name |-> Str("OtherNet"),
                      as_country |-> Str("NL")]),
         title |-> Str("C"), status_code |-> Num(200), unknown |-> Num(1)])],
    \* 4: no url, no asn object, a null tech list
    [syntax |-> TRUE, doc |-> Obj([host |-> Str("5.6.7.8"), tech |-> Null])],
    \* 5: not JSON
    [syntax |-> FALSE, doc |-> Null],
    \* 6: a member of the wrong type
    [syntax |-> TRUE, doc |-> Obj(
        [url |-> Str("https://b.example"), status_code |-> Str("200")])]
>>

-----------------------------------------------------------------------------
(* The graph store: nodes and relationships with identities of their own. *)

EmptyGraph == [nodes |-> {}, rels |-> {}]

NoProps == [x \in {} |-> ""]

SetMax(S) == IF S = {} THEN 0 ELSE CHOOSE m \in S : \A x \in S : x <= m

NewNodeId(g) == SetMax({n.id : n \in g.nodes}) + 1

NewRelId(g) == SetMax({r.id : r \in g.rels}) + 1

\* MATCH (x:label {key: k}): the nodes of that label and key.
Match(g, label, k) == {n \in g.nodes : n.label = label /\ n.key = k}

\* CREATE in place of MERGE: a node is added whether or not one matches.
MergeNode_create(g, label, k) ==
    [g EXCEPT !.nodes = @ \cup
        {[id |-> NewNodeId(g), label |-> label, key |-> k, props |-> NoProps]}]

\* MERGE (x:label {key: k}): create the node when none matches.
MergeNode(g, label, k) ==
    IF Match(g, label, k) # {} THEN g
    ELSE [g EXCEPT !.nodes = @ \cup
            {[id |-> NewNodeId(g), label |-> label, key |-> k, props |-> NoProps]}]

\* ON CREATE SET in place of SET: properties a node already has are kept.
SetProps_keep(g, matched, props) ==
    [g EXCEPT !.nodes =
        {IF n \in matched THEN [n EXCEPT !.props = n.props @@ props] ELSE n : n \in @}]

\* SET x.p = v, ... on every matched node: the named properties are overwritten.
SetProps(g, matched, props) ==
    [g EXCEPT !.nodes =
        {IF n \in matched THEN [n EXCEPT !.props = props @@ n.props] ELSE n : n \in @}]

RECURSIVE MergeRels(_, _, _)
\* MERGE (a)-[:type]->(b) for every row <<a, b>>: create the relationship
\* when the pair has none of that type.
MergeRels(g, type, rows) ==
    IF rows = {} THEN g
    ELSE LET row == CHOOSE p \in rows : \A q \in rows : p[1] < q[1] \/ (p[1] = q[1] /\ p[2] <= q[2])
             has == \E r \in g.rels : r.type = type /\ r.src = row[1] /\ r.dst = row[2]
             g1 == IF has THEN g
                   ELSE [g EXCEPT !.rels = @ \cup
                           {[id |-> NewRelId(g), type |-> type, src |-> row[1], dst |-> row[2]]}]
         IN MergeRels(g1, type, rows \ {row})

Ids(S) == {n.id : n \in S}

-----------------------------------------------------------------------------
(* The four Cypher statements of the write transaction. *)

\* The parameters of hostQuery that become properties of the Host node; the
\* hard-coded variant also sets neo4j_label to the URL.
HostProps(r, v) ==
    LET scalars == [input |-> r.Input, port |-> r.Port, title |-> r.Title,
                    scheme |-> r.Scheme, webserver |-> r.Webserver,
                    status |-> r.Status, words |-> r.Words, lines |-> r.Lines]
    IN IF v = "hardcoded" THEN [neo4j_label |-> r.URL] @@ scalars ELSE scalars

\* MERGE (h:Host {url: $url}) SET h.input = ..., h.lines = $lines
HostQuery(g, r, v) ==
    LET g1 == MergeNode(g, "Host", r.URL)
    IN SetProps(g1, Match(g1, "Host", r.URL), HostProps(r, v))

\* The Host rows of the three relationship statements and the graph they
\* leave: MATCH (h:Host {url: $url}) in src/main.go, which yields no row when
\* the host is missing; MERGE (h:Host {url: $url}) in the hard-coded variant.
HostRows(g, url, v) ==
    IF v = "hardcoded" THEN MergeNode(g, "Host", url) ELSE g

\* ... MERGE (x:label {key: $k}) MERGE (h)-[:type]->(x)
Link(g, url, label, k, type, v) ==
    IF v # "hardcoded" /\ Match(g, "Host", url) = {} THEN g
    ELSE LET g1 == MergeNode(g, label, k)
             g2 == HostRows(g1, url, v)
         IN MergeRels(g2, type,
                      Ids(Match(g2, "Host", url)) \X Ids(Match(g2, label, k)))

\* CREATE (a)-[:type]->(b) between the host of url and the node of key k.
CreateRel(g, url, label, k, type) ==
    LET h == CHOOSE n \in Match(g, "Host", url) : TRUE
        x == CHOOSE n \in Match(g, label, k) : TRUE
    IN [g EXCEPT !.rels = @ \cup
           {[id |-> NewRelId(g), type |-> type, src |-> h.id, dst |-> x.id]}]

\* ipQuery with CREATE (h)-[:RESOLVES_TO]->(i) in place of the MERGE.
IpQuery_create(g, r, v) ==
    CreateRel(HostRows(MergeNode(g, "IP", r.Host), r.URL, v), r.URL, "IP", r.Host,
              "RESOLVES_TO")

\* ipQuery: MERGE (i:IP {address: $ip}) and (h)-[:RESOLVES_TO]->(i)
IpQuery(g, r, v) == Link(g, r.URL, "IP", r.Host, "RESOLVES_TO", v)

\* techQuery with CREATE (h)-[:USES]->(t) in place of the MERGE.
TechQuery_create(g, r, tech, v) ==
    CreateRel(HostRows(MergeNode(g, "Tech", tech), r.URL, v), r.URL, "Tech", tech,
              "USES")

\* techQuery: MERGE (t:Tech {name: $tech}) and (h)-[:USES]->(t)
TechQuery(g, r, tech, v) == Link(g, r.URL, "Tech", tech, "USES", v)

\* asnQuery: MERGE (a:ASN {number: $as_number}) SET a.name, a.country and
\* MERGE (h)-[:BELONGS_TO]->(a)
AsnQuery(g, r, v) ==
    IF v # "hardcoded" /\ Match(g, "Host", r.URL) = {} THEN g
    ELSE LET g1 == MergeNode(g, "ASN", r.ASN.ASNumber)
             g2 == SetProps(g1, Match(g1, "ASN", r.ASN.ASNumber),
                            [name |-> r.ASN.ASName, country |-> r.ASN.ASCountry])
             g3 == HostRows(g2, r.URL, v)
         IN MergeRels(g3, "BELONGS_TO",
                      Ids(Match(g3, "Host", r.URL)) \X
                      Ids(Match(g3, "ASN", r.ASN.ASNumber)))

\* if result.ASN.ASNumber != ""
HasASN(r) == r.ASN.ASNumber # ""

\* The ASN statement without its guard on the AS number.
AfterTech_always(r, i) == IF i <= Len(r.Tech) THEN "tech" ELSE "asn"

\* Where the transaction function goes after the IP statement and after each
\* tech statement: the next tech, else the ASN statement, else its return.
AfterTech(r, i) ==
    IF i <= Len(r.Tech) THEN "tech" ELSE IF HasASN(r) THEN "asn" ELSE "commit"

-----------------------------------------------------------------------------
(* main() *)

Entry(kind, url, detail) == [kind |-> kind, url |-> url, detail |-> detail]

Init ==
    /\ variant \in {"config", "hardcoded"}
    /\ pc = "flag"
    /\ exitCode = -1
    /\ file = "none" /\ driver = "none" /\ session = "none"
    /\ read = <<>>
    /\ result = ZeroResult
    /\ graph = EmptyGraph /\ tx = EmptyGraph /\ before = EmptyGraph
    /\ ti = 1
    /\ ran = <<>>
    /\ err = ""
    /\ log = <<>>

\* log.Fatal, log.Fatalf: the message is written and os.Exit(1) ends the
\* process at once; deferred calls do not run.
Fatal(msg) ==
    /\ log' = Append(log, Entry("fatal", "", msg))
    /\ pc' = "exited"
    /\ exitCode' = 1

\* A step succeeds and main goes on to `next`.
Proceed(next) == pc' = next /\ UNCHANGED <<exitCode, log>>

\* flag.Parse and the check of -f.
FlagParse ==
    /\ pc = "flag"
    /\ \/ Proceed(IF variant = "config" THEN "home" ELSE "open")
       \/ Fatal("Usage: go run main.go -f <path to JSON file>")
    /\ UNCHANGED <<variant, file, driver, session, read, result, graph, tx, before,
                   ti, ran, err>>

UserHomeDir ==
    /\ pc = "home"
    /\ \/ Proceed("stat")
       \/ Fatal("Error getting user home directory")
    /\ UNCHANGED <<variant, file, driver, session, read, result, graph, tx, before,
                   ti, ran, err>>

\* os.Stat(configPath): the file is missing, or it is taken to exist.
StatConfig ==
    /\ pc = "stat"
    /\ pc' \in {"mkdir", "readcfg"}
    /\ UNCHANGED <<variant, exitCode, file, driver, session, read, result, graph, tx,
                   before, ti, ran, err, log>>

MkdirAll ==
    /\ pc = "mkdir"
    /\ \/ Proceed("marshal")
       \/ Fatal("Error creating config directory")
    /\ UNCHANGED <<variant, file, driver, session, read, result, graph, tx, before,
                   ti, ran, err>>

\* The three prompts (read errors ignored, defaults filled in) and yaml.Marshal.
PromptAndMarshal ==
    /\ pc = "marshal"
    /\ \/ Proceed("writecfg")
       \/ Fatal("Error marshalling YAML")
    /\ UNCHANGED <<variant, file, driver, session, read, result, graph, tx, before,
                   ti, ran, err>>

WriteConfig ==
    /\ pc = "writecfg"
    /\ \/ Proceed("open")
       \/ Fatal("Error writing config file")
    /\ UNCHANGED <<variant, file, driver, session, read, result, graph, tx, before,
                   ti, ran, err>>

ReadConfig ==
    /\ pc = "readcfg"
    /\ \/ Proceed("parsecfg")
       \/ Fatal("Error reading config file")
    /\ UNCHANGED <<variant, file, driver, session, read, result, graph, tx, before,
                   ti, ran, err>>

ParseConfig ==
    /\ pc = "parsecfg"
    /\ \/ Proceed("open")
       \/ Fatal("Error parsing config file")
    /\ UNCHANGED <<variant, file, driver, session, read, result, graph, tx, before,
                   ti, ran, err>>

\* os.Open(*filePath); defer file.Close()
OpenFile ==
    /\ pc = "open"
    /\ \/ pc' = "driver" /\ file' = "open" /\ UNCHANGED <<exitCode, log>>
       \/ Fatal("Error opening JSON file") /\ UNCHANGED file
    /\ UNCHANGED <<variant, driver, session, read, result, graph, tx, before, ti,
                   ran, err>>

\* NewDriver with log.Printf in place of log.Fatalf: the error is logged and
\* main goes on.
NewDriver_printf ==
    /\ pc = "driver"
    /\ \/ pc' = "session" /\ driver' = "open" /\ UNCHANGED <<exitCode, log>>
       \/ /\ log' = Append(log, Entry("fatal", "", "Error connecting to Neo4j"))
          /\ pc' = "session"
          /\ UNCHANGED <<driver, exitCode>>
    /\ UNCHANGED <<variant, file, session, read, result, graph, tx, before, ti,
                   ran, err>>

\* neo4j.NewDriver(...); defer driver.Close()
NewDriver ==
    /\ pc = "driver"
    /\ \/ pc' = "session" /\ driver' = "open" /\ UNCHANGED <<exitCode, log>>
       \/ Fatal("Error connecting to Neo4j") /\ UNCHANGED driver
    /\ UNCHANGED <<variant, file, session, read, result, graph, tx, before, ti,
                   ran, err>>

\* driver.NewSession(...); defer session.Close()
NewSession ==
    /\ pc = "session"
    /\ pc' = "scan"
    /\ session' = "open"
    /\ UNCHANGED <<variant, exitCode, file, driver, read, result, graph, tx, before,
                   ti, ran, err, log>>

-----------------------------------------------------------------------------
(* The scan/decode loop and the write transaction of one record. *)

Last(s) == s[Len(s)]

\* scanner.Scan() returns a line.
Scan ==
    /\ pc = "scan"
    /\ Len(read) < MaxLines
    /\ \E i \in 1..Len(Corpus) : read' = Append(read, i)
    /\ before' = graph
    /\ result' = ZeroResult
    /\ err' = ""
    /\ ran' = <<>>
    /\ ti' = 1
    /\ pc' = "decode"
    /\ UNCHANGED <<variant, exitCode, file, driver, session, graph, tx, log>>

\* scanner.Scan() returns false: at the end of the input scanner.Err() is nil
\* and main prints the completion message and returns; after a read error
\* (a failed read, a line longer than the scanner's buffer) it is fatal.
ScanStop ==
    /\ pc = "scan"
    /\ \/ /\ log' = Append(log, Entry("done", "", ""))
          /\ pc' = "close_session"
          /\ UNCHANGED exitCode
       \/ Fatal("Error reading file")
    /\ UNCHANGED <<variant, file, driver, session, read, result, graph, tx, before,
                   ti, ran, err>>

\* Decode with the loop left at the first line that fails to decode.
Decode_fatal ==
    /\ pc = "decode"
    /\ LET u == Unmarshal(Corpus[Last(read)])
       IN IF u.ok
          THEN /\ result' = u.result
               /\ log' = Append(log, Entry("processing", u.result.URL, ""))
               /\ pc' = "begin"
               /\ UNCHANGED exitCode
          ELSE /\ log' = Append(log, Entry("parse_error", "", ""))
               /\ pc' = "exited"
               /\ exitCode' = 1
               /\ UNCHANGED result
    /\ UNCHANGED <<variant, file, driver, session, read, graph, tx, before,
                   ti, ran, err>>

\* json.Unmarshal of the line: an error is logged and the loop continues.
Decode ==
    /\ pc = "decode"
    /\ LET u == Unmarshal(Corpus[Last(read)])
       IN IF u.ok
          THEN /\ result' = u.result
               /\ log' = Append(log, Entry("processing", u.result.URL, ""))
               /\ pc' = "begin"
          ELSE /\ log' = Append(log, Entry("parse_error", "", ""))
               /\ pc' = "scan"
               /\ UNCHANGED result
    /\ UNCHANGED <<variant, exitCode, file, driver, session, read, graph, tx, before,
                   ti, ran, err>>

\* The transaction function returns an error, or the store fails: the
\* transaction is rolled back and WriteTransaction returns the error.
Rollback(e) ==
    /\ err' = e
    /\ tx' = EmptyGraph
    /\ pc' = "report"

\* session.WriteTransaction opens a transaction on the committed graph.
BeginTx ==
    /\ pc = "begin"
    /\ \/ tx' = graph /\ pc' = "host" /\ UNCHANGED err
       \/ Rollback("connection error")
    /\ UNCHANGED <<variant, exitCode, file, driver, session, read, result, graph,
                   before, ti, ran, log>>

\* The host statement run in a transaction of its own (session.Run): its
\* write is committed at once.
HostStep_autocommit ==
    /\ pc = "host"
    /\ ran' = Append(ran, [q |-> "Host", arg |-> result.URL])
    /\ \/ /\ tx' = HostQuery(tx, result, variant)
          /\ graph' = HostQuery(tx, result, variant)
          /\ pc' = "ip"
          /\ UNCHANGED err
       \/ Rollback("Host query error") /\ UNCHANGED graph
    /\ UNCHANGED <<variant, exitCode, file, driver, session, read, result,
                   before, ti, log>>

\* tx.Run(hostQuery, ...)
HostStep ==
    /\ pc = "host"
    /\ ran' = Append(ran, [q |-> "Host", arg |-> result.URL])
    /\ \/ tx' = HostQuery(tx, result, variant) /\ pc' = "ip" /\ UNCHANGED err
       \/ Rollback("Host query error")
    /\ UNCHANGED <<variant, exitCode, file, driver, session, read, result, graph,
                   before, ti, log>>

\* The IP statement with the return after its error missing: the error is
\* kept and the transaction function goes on.
IpStep_noReturn ==
    /\ pc = "ip"
    /\ ran' = Append(ran, [q |-> "IP", arg |-> result.Host])
    /\ \/ /\ tx' = IpQuery(tx, result, variant)
          /\ pc' = AfterTech(result, 1)
          /\ UNCHANGED err
       \/ /\ err' = "IP query error"
          /\ pc' = AfterTech(result, 1)
          /\ UNCHANGED tx
    /\ UNCHANGED <<variant, exitCode, file, driver, session, read, result, graph,
                   before, ti, log>>

\* tx.Run(ipQuery, ...)
IpStep ==
    /\ pc = "ip"
    /\ ran' = Append(ran, [q |-> "IP", arg |-> result.Host])
    /\ \/ /\ tx' = IpQuery(tx, result, variant)
          /\ pc' = AfterTech(result, 1)
          /\ UNCHANGED err
       \/ Rollback("IP query error")
    /\ UNCHANGED <<variant, exitCode, file, driver, session, read, result, graph,
                   before, ti, log>>

\* for _, tech := range result.Tech { tx.Run(techQuery, ...) }
TechStep ==
    /\ pc = "tech"
    /\ ran' = Append(ran, [q |-> "Tech", arg |-> result.Tech[ti]])
    /\ \/ /\ tx' = TechQuery(tx, result, result.Tech[ti], variant)
          /\ ti' = ti + 1
          /\ pc' = AfterTech(result, ti + 1)
          /\ UNCHANGED err
       \/ Rollback("Tech query error") /\ UNCHANGED ti
    /\ UNCHANGED <<variant, exitCode, file, driver, session, read, result, graph,
                   before, log>>

\* if result.ASN.ASNumber != "" { tx.Run(asnQuery, ...) }
AsnStep ==
    /\ pc = "asn"
    /\ ran' = Append(ran, [q |-> "ASN", arg |-> result.ASN.ASNumber])
    /\ \/ tx' = AsnQuery(tx, result, variant) /\ pc' = "commit" /\ UNCHANGED err
       \/ Rollback("ASN query error")
    /\ UNCHANGED <<variant, exitCode, file, driver, session, read, result, graph,
                   before, ti, log>>

\* return nil, nil: WriteTransaction commits, or the commit fails.
Commit ==
    /\ pc = "commit"
    /\ \/ graph' = tx /\ tx' = EmptyGraph /\ pc' = "report" /\ UNCHANGED err
       \/ Rollback("commit error") /\ UNCHANGED graph
    /\ UNCHANGED <<variant, exitCode, file, driver, session, read, result, before,
                   ti, ran, log>>

\* if err != nil { log.Printf("Error processing %s: %v", ...) } else
\* { fmt.Printf("Added to Neo4j: %s\n", ...) }
Report ==
    /\ pc = "report"
    /\ log' = Append(log, IF err # "" THEN Entry("error", result.URL, err)
                          ELSE Entry("added", result.URL, ""))
    /\ pc' = "scan"
    /\ UNCHANGED <<variant, exitCode, file, driver, session, read, result, graph, tx,
                   before, ti, ran, err>>

\* main returns: the deferred calls run, last deferred first.
CloseSession ==
    /\ pc = "close_session"
    /\ session' = "closed"
    /\ pc' = "close_driver"
    /\ UNCHANGED <<variant, exitCode, file, driver, read, result, graph, tx, before,
                   ti, ran, err, log>>

CloseDriver ==
    /\ pc = "close_driver"
    /\ driver' = "closed"
    /\ pc' = "close_file"
    /\ UNCHANGED <<variant, exitCode, file, session, read, result, graph, tx, before,
                   ti, ran, err, log>>

CloseFile ==
    /\ pc = "close_file"
    /\ file' = "closed"
    /\ pc' = "exited"
    /\ exitCode' = 0
    /\ UNCHANGED <<variant, driver, session, read, result, graph, tx, before,
                   ti, ran, err, log>>

Next ==
    \/ FlagParse \/ UserHomeDir \/ StatConfig \/ MkdirAll \/ PromptAndMarshal
    \/ WriteConfig \/ ReadConfig \/ ParseConfig
    \/ OpenFile \/ NewDriver \/ NewSession
    \/ Scan \/ ScanStop \/ Decode
    \/ BeginTx \/ HostStep \/ IpStep \/ TechStep \/ AsnStep \/ Commit \/ Report
    \/ CloseSession \/ CloseDriver \/ CloseFile

Spec == Init /\ [][Next]_vars

-----------------------------------------------------------------------------
(* What the properties below read off a state. *)

\* The log entries that end the processing of a line, one per finished line.
Done == SelectSeq(log, LAMBDA e : e.kind \in {"parse_error", "error", "added"})

\* No line is in flight: every line read has been skipped or reported.
Quiescent == Len(Done) = Len(read)

\* The record line i of the input decodes to.
Rec(i) == Unmarshal(Corpus[read[i]]).result

\* The finished lines whose transaction was committed.
Committed == {i \in 1..Len(Done) : Done[i].kind = "added"}

\* The latest finished line was committed / failed in the store / failed to decode.
LastIs(kind) == Quiescent /\ Len(Done) >= 1 /\ Done[Len(Done)].kind = kind

NodeById(g, id) == CHOOSE n \in g.nodes : n.id = id

\* The relationships of a graph by type and by the keys of their end nodes.
RelTriples(g) ==
    {<<r.type, NodeById(g, r.src).key, NodeById(g, r.dst).key>> : r \in g.rels}

\* The relationships one record asks for.
RelsOf(r) ==
    {<<"RESOLVES_TO", r.URL, r.Host>>}
        \cup {<<"USES", r.URL, r.Tech[i]>> : i \in 1..Len(r.Tech)}
        \cup (IF r.ASN.ASNumber # "" THEN {<<"BELONGS_TO", r.URL, r.ASN.ASNumber>>} ELSE {})

\* The statements one record's transaction function issues, in order.
ExpectedSteps(r) ==
    <<[q |-> "Host", arg |-> r.URL], [q |-> "IP", arg |-> r.Host]>>
        \o [i \in 1..Len(r.Tech) |-> [q |-> "Tech", arg |-> r.Tech[i]]]
        \o (IF r.ASN.ASNumber # "" THEN <<[q |-> "ASN", arg |-> r.ASN.ASNumber]>> ELSE <<>>)

IsPrefix(s, t) == Len(s) <= Len(t) /\ \A i \in 1..Len(s) : s[i] = t[i]

StepErrors == {"Host query error", "IP query error", "Tech query error", "ASN query error"}

StepError(q) ==
    CASE q = "Host" -> "Host query error"
      [] q = "IP" -> "IP query error"
      [] q = "Tech" -> "Tech query error"
      [] q = "ASN" -> "ASN query error"

SetupMessages ==
    {"Usage: go run main.go -f <path to JSON file>", "Error getting user home directory",
     "Error creating config directory", "Error marshalling YAML",
     "Error writing config file", "Error reading config file",
     "Error parsing config file", "Error opening JSON file",
     "Error connecting to Neo4j"}

TxPcs == {"host", "ip", "tech", "asn", "commit"}

-----------------------------------------------------------------------------
(* The properties. *)

\* C1: idempotence. When a record is committed and the record committed just
\* before it (with only skipped or failed lines between) is the same record,
\* the graph after the second commit is the graph before it: the same nodes
\* with the same properties and the same relationships.
C1_Idempotent ==
    \A n \in Committed :
        (/\ Quiescent /\ n = Len(read)
         /\ \E j \in Committed :
                /\ j < n
                /\ Rec(j) = Rec(n)
                /\ \A k \in Committed : ~(j < k /\ k < n))
        => graph = before

C1_Witness ==
    /\ Quiescent /\ Len(read) = 2 /\ Committed = {1, 2}
    /\ read[1] = read[2]
    /\ graph.rels # {}

\* C2: last write wins, relationships accumulate. With no line in flight,
\* every URL of a committed record has exactly one Host node, whose eight
\* scalar properties are those of the record committed last for that URL, and
\* the relationships of the graph are exactly the union of the relationships
\* of all committed records, whatever the order they came in.
C2_LastWriteWins ==
    Quiescent =>
        /\ \A i \in Committed :
               LET u == Rec(i).URL
                   last == Rec(SetMax({j \in Committed : Rec(j).URL = u}))
               IN /\ Cardinality(Match(graph, "Host", u)) = 1
                  /\ \A h \in Match(graph, "Host", u) :
                        /\ h.props.input = last.Input
                        /\ h.props.port = last.Port
                        /\ h.props.title = last.Title
                        /\ h.props.scheme = last.Scheme
                        /\ h.props.webserver = last.Webserver
                        /\ h.props.status = last.Status
                        /\ h.props.words = last.Words
                        /\ h.props.lines = last.Lines
        /\ RelTriples(graph) = UNION {RelsOf(Rec(i)) : i \in Committed}

C2_Witness ==
    /\ Quiescent /\ Committed = {1, 2}
    /\ Rec(1).URL = Rec(2).URL
    /\ Rec(1).Title # Rec(2).Title /\ Rec(1).Host # Rec(2).Host
    /\ HasASN(Rec(1)) /\ ~HasASN(Rec(2))

\* C3: a record with an empty AS number (or no asn object) issues no ASN
\* statement and its commit leaves the ASN nodes and the BELONGS_TO
\* relationships as they were; no ASN node ever has the empty number.
C3_EmptyASN ==
    /\ \A n \in graph.nodes \cup tx.nodes : n.label = "ASN" => n.key # ""
    /\ ~HasASN(result) => \A i \in 1..Len(ran) : ran[i].q # "ASN"
    /\ (LastIs("added") /\ ~HasASN(result)) =>
           /\ Match(graph, "ASN", "") = {}
           /\ {n \in graph.nodes : n.label = "ASN"} = {n \in before.nodes : n.label = "ASN"}
           /\ {r \in graph.rels : r.type = "BELONGS_TO"}
                  = {r \in before.rels : r.type = "BELONGS_TO"}

C3_Witness ==
    /\ LastIs("added") /\ ~HasASN(result)
    /\ Len(read) = 2
    /\ \E n \in before.nodes : n.label = "ASN"
    /\ graph # before

\* C4: duplicate technology names. Every tech statement of the list is
\* issued, in list order and duplicates included, and after the commit each
\* name of the list has exactly one Tech node and exactly one USES
\* relationship from the record's Host to it.
C4_DuplicateTech ==
    /\ LastIs("added") => ran = ExpectedSteps(result)
    /\ Quiescent =>
          \A i \in Committed : \A k \in 1..Len(Rec(i).Tech) :
              LET t == Rec(i).Tech[k]
              IN /\ Cardinality(Match(graph, "Tech", t)) = 1
                 /\ Cardinality({r \in graph.rels :
                        /\ r.type = "USES"
                        /\ r.src \in Ids(Match(graph, "Host", Rec(i).URL))
                        /\ r.dst \in Ids(Match(graph, "Tech", t))}) = 1

C4_Witness ==
    /\ LastIs("added")
    /\ Len(result.Tech) = 2 /\ result.Tech[1] = result.Tech[2]
    /\ Len(SelectSeq(ran, LAMBDA s : s.q = "Tech")) = 2

\* C5: a decode failure does not halt the stream. A line is skipped exactly
\* when it is malformed itself (bad syntax or a member of the wrong type),
\* whatever came before it; the skipped line leaves the graph as it was and
\* the loop goes on to the next line; and a well-formed line committed after
\* a malformed one has its Host node and all its relationships in the graph.
C5_DecodeFailureContinues ==
    /\ \A i \in 1..Len(Done) :
           (Done[i].kind = "parse_error") <=> ~Unmarshal(Corpus[read[i]]).ok
    /\ (Quiescent /\ log # <<>> /\ Last(log).kind = "parse_error") => pc = "scan"
    /\ LastIs("parse_error") => graph = before /\ ran = <<>>
    /\ Quiescent =>
           \A i \in Committed :
               (\E j \in 1..(i - 1) : Done[j].kind = "parse_error") =>
                   /\ Match(graph, "Host", Rec(i).URL) # {}
                   /\ RelsOf(Rec(i)) \subseteq RelTriples(graph)

C5_Witness ==
    /\ Quiescent /\ Len(Done) = 2
    /\ Done[1].kind = "parse_error" /\ Done[2].kind = "added"
    /\ HasASN(Rec(2)) /\ Len(Rec(2).Tech) = 2

\* C6: per-record atomicity. While a record's transaction is open the
\* committed graph is the graph from before the record; when the transaction
\* fails at any statement (or at its begin or commit) the graph is still that
\* graph, the failure is logged with the record's URL, and the loop goes on
\* to the next line.
C6_Atomic ==
    /\ pc \in TxPcs => graph = before
    /\ (pc = "report" /\ err # "") => graph = before
    /\ LastIs("error") =>
           /\ graph = before
           /\ Done[Len(Done)].url = Rec(Len(read)).URL
           /\ Done[Len(Done)].detail = err
    /\ (Quiescent /\ log # <<>> /\ Last(log).kind = "error") => pc = "scan"

C6_Witness ==
    /\ LastIs("error") /\ err = "ASN query error"
    /\ Len(read) = 2 /\ before # EmptyGraph
    /\ Len(ran) = 5

\* C7: uniquely keyed, shared nodes. In the committed graph and in the open
\* transaction no two nodes have the same label and key; every relationship
\* joins a Host node to an existing IP, Tech or ASN node; so the RESOLVES_TO,
\* USES and BELONGS_TO relationships of all committed records that name the
\* same address, technology or AS number end at the one node of that key.
C7_UniqueKeys ==
    /\ \A g \in {graph, tx} :
           /\ \A n1, n2 \in g.nodes :
                  (n1.label = n2.label /\ n1.key = n2.key) => n1.id = n2.id
           /\ \A r \in g.rels :
                  /\ \E h \in g.nodes : h.id = r.src /\ h.label = "Host"
                  /\ \E n \in g.nodes :
                        /\ n.id = r.dst
                        /\ n.label = CASE r.type = "RESOLVES_TO" -> "IP"
                                       [] r.type = "USES" -> "Tech"
                                       [] r.type = "BELONGS_TO" -> "ASN"
    /\ Quiescent =>
           \A i \in Committed :
               /\ Cardinality(Match(graph, "Host", Rec(i).URL)) = 1
               /\ Cardinality(Match(graph, "IP", Rec(i).Host)) = 1
               /\ HasASN(Rec(i)) => Cardinality(Match(graph, "ASN", Rec(i).ASN.ASNumber)) = 1
               /\ \A k \in 1..Len(Rec(i).Tech) :
                      Cardinality(Match(graph, "Tech", Rec(i).Tech[k])) = 1
               /\ RelsOf(Rec(i)) \subseteq RelTriples(graph)

C7_Witness ==
    /\ Quiescent /\ Committed = {1, 2}
    /\ Rec(1).URL # Rec(2).URL
    /\ Rec(1).Host = Rec(2).Host /\ Rec(1).ASN.ASNumber = Rec(2).ASN.ASNumber
    /\ \E n \in graph.nodes :
           /\ n.label = "IP"
           /\ Cardinality({r \in graph.rels : r.type = "RESOLVES_TO" /\ r.dst = n.id}) = 2
    /\ \E n \in graph.nodes :
           /\ n.label = "ASN"
           /\ Cardinality({r \in graph.rels : r.type = "BELONGS_TO" /\ r.dst = n.id}) = 2

C9_ReleasedOnExit ==
    pc = "exited" => file # "open" /\ driver # "open" /\ session # "open"

\* C10: a failed statement aborts the rest of the record. The statements run
\* in the order Host, IP, each Tech of the list, ASN; when one fails it is the
\* last statement of the transaction, the transaction is rolled back, and the
\* logged error carries the record's URL and the name of the failed statement.
C10_StepFailureAborts ==
    /\ IsPrefix(ran, ExpectedSteps(result))
    /\ err \in StepErrors =>
           /\ ran # <<>>
           /\ err = StepError(Last(ran).q)
           /\ pc \notin TxPcs
           /\ tx = EmptyGraph
    /\ (LastIs("error") /\ Done[Len(Done)].detail \in StepErrors) =>
           /\ Done[Len(Done)].url = result.URL
           /\ Done[Len(Done)].detail = StepError(Last(ran).q)

C10_Witness ==
    /\ LastIs("error") /\ Done[Len(Done)].detail = "IP query error"
    /\ Len(result.Tech) = 2 /\ HasASN(result)
    /\ Len(ran) = 2

====
